---- MODULE Spec2Model ----
(***************************************************************************)
(* Model of light-cv: the blob detectors of src/core/algorithms and the    *)
(* proximity line connector of src/core/draw/lines.py.                     *)
(*                                                                         *)
(* Python lists are 0-based; the model keeps the source's 0-based indices  *)
(* in pairs, edges and deg, and reads element i of a list s as s[i + 1].   *)
(***************************************************************************)
EXTENDS Integers, Sequences, FiniteSets, TLC

VARIABLES
    \* ---- lines.draw_frame (the proximity connector) ----
    centers,    \* metadata["centers"]: the list of (x, y) points
    degree,     \* options.degree
    pairs,      \* the sorted list of (d2, i, j) candidates
    k,          \* number of candidates the scan loop has consumed
    deg,        \* per-index degree counter
    edges,      \* the (i, j) of every cv2.line call so far, in call order
    pc,         \* position in draw_frame: "call", "scan", "done", or "idle"
    runs,       \* number of completed draw_frame calls on these inputs
    prevEdges,  \* edges of the previous completed call
    \* ---- ALGORITHMS[algo].process_frame (the detectors) ----
    frame,      \* the BGR frame handed to process_frame
    algo,       \* the key selected in ALGORITHMS
    options,    \* the options record of the selected variant
    blur,       \* the smoothed grayscale image
    thresh_val, \* the level handed to cv2.threshold, in hundredths
    binary,     \* the mask cv2.threshold produced, before the cleanup
    thresh,     \* the cleaned binary mask
    contours,   \* the list returned by cv2.findContours
    components, \* the labelled regions of the local-maximum mask (Peaks)
    result,     \* the value process_frame returned, or the exception it raised
    ops,        \* the cv2 / numpy calls of the thresholding step made so far
    dpc,        \* "call", "returned", "raised", or "idle"
    \* ---- app.py, the frame loop ----
    video,      \* the frames cap.read() can deliver, in order
    n_frames,   \* int(cap.get(cv2.CAP_PROP_FRAME_COUNT))
    frame_i,    \* the loop index i
    enabled,    \* stars_enabled, boxes_enabled, lines_enabled
    metadata,   \* the value bound at line 120
    drawn,      \* draw calls made on the current overlay, per renderer
    reads,      \* indices of the frames read with ok = True, in order
    written,    \* indices of the frames handed to out.write, in order
    error,      \* the exception that left the loop, or "none"
    lpc         \* position in the loop, or "idle"

lineVars == <<centers, degree, pairs, k, deg, edges, pc, runs, prevEdges>>

detectVars ==
    <<frame, algo, options, blur, thresh_val, binary, thresh, contours, components,
      result, ops, dpc>>

loopVars ==
    <<video, n_frames, frame_i, enabled, metadata, drawn, reads, written, error, lpc>>

vars == <<lineVars, detectVars, loopVars>>

NoDraws == [stars |-> 0, boxes |-> 0, lines |-> 0]

LoopIdle ==
    /\ video = <<>>
    /\ n_frames = 0
    /\ frame_i = 0
    /\ enabled = [stars |-> FALSE, boxes |-> FALSE, lines |-> FALSE]
    /\ metadata = <<>>
    /\ drawn = NoDraws
    /\ reads = <<>>
    /\ written = <<>>
    /\ error = "none"
    /\ lpc = "idle"

-----------------------------------------------------------------------------
(* Frames.  A frame is a BGR pixel grid of FrameW columns and two rows; a   *)
(* pixel is addressed as <<x, y>>.  On a two-row grid every 8-connected    *)
(* foreground region is free of holes and has a single outer border.       *)

FrameW == 4

Xs == 0 .. FrameW - 1
Ys == {0, 1}
FrameH == Cardinality(Ys)
Pixels == Xs \X Ys
Palette == {<<0, 0, 0>>, <<255, 255, 255>>}
Frames == [Pixels -> Palette]

(* An image is held as an explicit array of pixel values. *)
Array(f) == f @@ <<>>

SetMax(S) == CHOOSE m \in S : \A x \in S : x <= m
SetMin(S) == CHOOSE m \in S : \A x \in S : m <= x

(* f[1] + ... + f[n] *)
RECURSIVE SumTo(_, _)
SumTo(f, n) == IF n = 0 THEN 0 ELSE f[n] + SumTo(f, n - 1)

(* the pixel numbered t in raster order, t = 1 .. FrameW * FrameH *)
PixelAt(t) == <<(t - 1) % FrameW, (t - 1) \div FrameW>>

NumPixels == FrameW * FrameH

(* cv2.cvtColor(frame, COLOR_BGR2GRAY): 8-bit fixed point luma,            *)
(* (R*4899 + G*9617 + B*1868 + 2^13) >> 14.                                *)
Gray(bgr) == (bgr[3] * 4899 + bgr[2] * 9617 + bgr[1] * 1868 + 8192) \div 16384

CvtColorGray(img) == Array([p \in Pixels |-> Gray(img[p])])

(* cv2.GaussianBlur(gray, (n, n), 0) on 8-bit data: the fixed separable     *)
(* kernels for sigma = 0 (1; 1 2 1; 1 4 6 4 1), BORDER_REFLECT_101, result *)
(* rounded to nearest.                                                     *)
BlurWeights(n) ==
    CASE n = 1 -> <<1>>
      [] n = 3 -> <<1, 2, 1>>
      [] n = 5 -> <<1, 4, 6, 4, 1>>

RECURSIVE Reflect101(_, _)
Reflect101(i, n) ==
    IF n = 1 THEN 0
    ELSE IF i < 0 THEN Reflect101(-i, n)
    ELSE IF i >= n THEN Reflect101(2 * (n - 1) - i, n)
    ELSE i

GaussianBlur(img, n) ==
    LET w == BlurWeights(n)
        r == n \div 2
        den == SumTo(w, n) * SumTo(w, n)
        Term(p, t) ==
            LET dx == ((t - 1) % n) - r
                dy == ((t - 1) \div n) - r
            IN  w[dx + r + 1] * w[dy + r + 1]
                  * img[<<Reflect101(p[1] + dx, FrameW), Reflect101(p[2] + dy, FrameH)>>]
    IN  Array([p \in Pixels |->
            (SumTo([t \in 1 .. n * n |-> Term(p, t)], n * n) + den \div 2) \div den])

(* cv2.threshold(src, t, 255, THRESH_BINARY) on 8-bit data: dst is 255     *)
(* where src > t and 0 elsewhere (t already floored to an integer).        *)
ThresholdAtOrAbove(img, t) ==
    Array([p \in Pixels |-> IF img[p] >= t THEN 255 ELSE 0])

ThresholdBinary(img, t) ==
    Array([p \in Pixels |-> IF img[p] > t THEN 255 ELSE 0])

(* cv2.threshold(..., THRESH_OTSU): the level i maximising the between-     *)
(* class variance q1*q2*(mu1-mu2)^2 of {<= i} against {> i}, the first such *)
(* level winning (sigma > max_sigma), 0 when no level splits the pixels.   *)
(* The variance changes only at levels present in the image, so only those *)
(* are candidates.  With c1, c2 the class sizes and s1, s2 the class sums, *)
(* the variance is (s1*c2 - s2*c1)^2 / (c1*c2) up to a constant factor.    *)
FracGreater(n1, d1, n2, d2) ==
    \/ n1 \div d1 > n2 \div d2
    \/ /\ n1 \div d1 = n2 \div d2
       /\ (n1 % d1) * d2 > (n2 % d2) * d1

OtsuLevel(img) ==
    LET vals == {img[p] : p \in Pixels}
        Cand == {v \in vals : \E u \in vals : u > v}
        C1(v) == SumTo([t \in 1 .. NumPixels |-> IF img[PixelAt(t)] <= v THEN 1 ELSE 0],
                       NumPixels)
        S1(v) == SumTo([t \in 1 .. NumPixels |->
                          IF img[PixelAt(t)] <= v THEN img[PixelAt(t)] ELSE 0], NumPixels)
        SAll == SumTo([t \in 1 .. NumPixels |-> img[PixelAt(t)]], NumPixels)
        Sigma == Array([v \in Cand |->
                    LET c1 == C1(v)
                        c2 == NumPixels - c1
                        s1 == S1(v)
                        d == s1 * c2 - (SAll - s1) * c1
                    IN  <<d * d, c1 * c2>>])
    IN  IF Cand = {} THEN 0
        ELSE CHOOSE v \in Cand :
                /\ \A u \in Cand :
                      ~FracGreater(Sigma[u][1], Sigma[u][2], Sigma[v][1], Sigma[v][2])
                /\ \A u \in Cand :
                      u < v => FracGreater(Sigma[v][1], Sigma[v][2], Sigma[u][1], Sigma[u][2])

(* np.percentile(blur, q), linear interpolation between the two nearest     *)
(* order statistics, then floored by cv2.threshold for 8-bit data.         *)
RECURSIVE InsertAscending(_, _)
InsertAscending(s, v) ==
    IF s = <<>> THEN <<v>>
    ELSE IF v < Head(s) THEN <<v>> \o s
    ELSE <<Head(s)>> \o InsertAscending(Tail(s), v)

RECURSIVE SortedValues(_, _)
SortedValues(img, t) ==
    IF t = 0 THEN <<>>
    ELSE InsertAscending(SortedValues(img, t - 1), img[PixelAt(t)])

Percentile100(img, q) ==
    LET a == SortedValues(img, NumPixels)
        pos == q * (Len(a) - 1)
        lo == pos \div 100
        hi == IF pos % 100 = 0 THEN lo ELSE lo + 1
    IN  a[lo + 1] * 100 + (a[hi + 1] - a[lo + 1]) * (pos % 100)

PercentileFloor(img, q) == Percentile100(img, q) \div 100

(* cv2.minMaxLoc(blur)[1] and int(max_val * margin); margin is held as a    *)
(* percentage, and the margins used are exact binary fractions.            *)
MaxVal(img) == SetMax({img[p] : p \in Pixels})

MarginLevelRounded(img, marginPct) == (MaxVal(img) * marginPct + 50) \div 100

MarginLevel(img, marginPct) == (MaxVal(img) * marginPct) \div 100

(* cv2.getStructuringElement(MORPH_ELLIPSE, (n, n)): row dy of the kernel   *)
(* spans |dx| <= round(sqrt(r^2 - dy^2)), r = n div 2.                      *)
RoundSqrt(n) == CHOOSE d \in 0 .. n : (d = 0 \/ (2 * d - 1) * (2 * d - 1) <= 4 * n)
                                      /\ 4 * n < (2 * d + 1) * (2 * d + 1)

EllipseKernel(n) ==
    LET r == n \div 2
        Row(dy) == LET dx == RoundSqrt(r * r - dy * dy)
                   IN  {<<ox, dy>> : ox \in -dx .. dx}
    IN  UNION {Row(dy) : dy \in -r .. r}

(* cv2.erode / cv2.dilate: minimum / maximum over the kernel, pixels        *)
(* outside the image ignored (the default border value).                   *)
Neighbourhood(p, K) == {<<p[1] + o[1], p[2] + o[2]>> : o \in K} \cap Pixels

Erode(img, K) ==
    Array([p \in Pixels |-> SetMin({img[q] : q \in Neighbourhood(p, K)})])

Dilate(img, K) ==
    Array([p \in Pixels |-> SetMax({img[q] : q \in Neighbourhood(p, K)})])

ErodeOnce(img, K, n) == Erode(img, K)

RECURSIVE ErodeN(_, _, _)
ErodeN(img, K, n) == IF n = 0 THEN img ELSE ErodeN(Erode(img, K), K, n - 1)

RECURSIVE DilateN(_, _, _)
DilateN(img, K, n) == IF n = 0 THEN img ELSE DilateN(Dilate(img, K), K, n - 1)

(* cv2.morphologyEx(img, MORPH_OPEN / MORPH_CLOSE, kernel, iterations=n)    *)
MorphOpen(img, K, n) == DilateN(ErodeN(img, K, n), K, n)

MorphClose(img, K, n) == ErodeN(DilateN(img, K, n), K, n)

(* 8-connected foreground regions of a mask *)
Foreground(mask) == {p \in Pixels : mask[p] # 0}

Adjacent8(p, q) ==
    /\ p # q
    /\ p[1] - q[1] \in -1 .. 1
    /\ p[2] - q[2] \in -1 .. 1

RECURSIVE Grow(_, _)
Grow(S, F) ==
    LET N == S \cup {q \in F : \E p \in S : Adjacent8(p, q)}
    IN  IF N = S THEN S ELSE Grow(N, F)

Regions(mask) == {Grow({p}, Foreground(mask)) : p \in Foreground(mask)}

RECURSIVE Orderings(_)
Orderings(S) ==
    IF S = {} THEN {<<>>}
    ELSE UNION {{<<c>> \o rest : rest \in Orderings(S \ {c})} : c \in S}

(* cv2.findContours(thresh, RETR_EXTERNAL, CHAIN_APPROX_SIMPLE): one        *)
(* contour per 8-connected region; a contour is held as the pixels of its  *)
(* region.  The order of the returned list is not fixed by the interface.  *)
FindContours(mask) == Orderings(Regions(mask))

(* cv2.contourArea(c), doubled: the area enclosed by the outer border       *)
(* through the pixel centres.  A 2x2 window with all four pixels in the    *)
(* region contributes 1, one with three of them 1/2.                       *)
ContourArea2(c) ==
    LET Win(x, y) == {<<x, y>>, <<x + 1, y>>, <<x, y + 1>>, <<x + 1, y + 1>>}
        Half(x, y) == LET n == Cardinality(Win(x, y) \cap c)
                      IN  IF n = 4 THEN 2 ELSE IF n = 3 THEN 1 ELSE 0
    IN  SumTo([t \in 1 .. (FrameW - 1) * (FrameH - 1) |->
                  Half((t - 1) % (FrameW - 1), (t - 1) \div (FrameW - 1))],
              (FrameW - 1) * (FrameH - 1))

(* cv2.boundingRect(c): (x, y, w, h) of the upright bounding rectangle *)
BoundingRect(c) ==
    LET x0 == SetMin({p[1] : p \in c})
        x1 == SetMax({p[1] : p \in c})
        y0 == SetMin({p[2] : p \in c})
        y1 == SetMax({p[2] : p \in c})
    IN  <<x0, y0, x1 - x0 + 1, y1 - y0 + 1>>

-----------------------------------------------------------------------------
(* Python values returned by process_frame: a tuple or a dict *)

PyTuple(items) == [type |-> "tuple", items |-> items]
PyDict(fields) == [type |-> "dict", items |-> fields]
NoValue == [type |-> "none", items |-> <<>>]
PyRaise(exc) == [type |-> "raise", items |-> exc]
PyList(items) == [type |-> "list", items |-> items]
PyObject(cls) == [type |-> "object", items |-> cls]

(* The thresholding functions, step by step: smoothing (otsu.py 31-32),   *)
(* the level and the mask of cv2.threshold (otsu.py 33, percentile.py      *)
(* 37-38, fixed.py 36-38, peaks.py 38-40), and the morphological cleanup    *)
(* (otsu.py 35-37, percentile.py 40-42, fixed.py 40-42, peaks.py 42-43).    *)
Smooth(img, blur_size) == GaussianBlur(CvtColorGray(img), blur_size)

OtsuBinary(bl) == ThresholdBinary(bl, OtsuLevel(bl))

PercentileBinary(bl, percentile) == ThresholdBinary(bl, PercentileFloor(bl, percentile))

MarginBinary(bl, marginPct) == ThresholdBinary(bl, MarginLevel(bl, marginPct))

CleanTwice(mask, clean_size) ==
    LET kernel == EllipseKernel(clean_size)
    IN  MorphClose(MorphOpen(mask, kernel, 2), kernel, 2)

CleanOnce(mask, clean_size) ==
    LET kernel == EllipseKernel(clean_size)
    IN  MorphClose(MorphOpen(mask, kernel, 1), kernel, 1)

OtsuClean(mask, clean_size) == CleanOnce(mask, clean_size)

PercentileClean(mask, clean_size) == CleanOnce(mask, clean_size)

FixedClean(mask, clean_size) == CleanTwice(mask, clean_size)

PeaksClean(mask, clean_size) == MorphOpen(mask, EllipseKernel(clean_size), 1)

(* otsu.py, lines 18-39 *)
OtsuThresholding(img, blur_size, clean_size) ==
    OtsuClean(OtsuBinary(Smooth(img, blur_size)), clean_size)

(* percentile.py, lines 20-44 *)
PercentileThresholding(img, percentile, blur_size, clean_size) ==
    PercentileClean(PercentileBinary(Smooth(img, blur_size), percentile), clean_size)

(* fixed.py, lines 19-44 *)
FixedThresholding(img, marginPct, blur_size, clean_size) ==
    FixedClean(MarginBinary(Smooth(img, blur_size), marginPct), clean_size)

(* The contour loop of otsu.py 63-78, percentile.py 68-83, fixed.py 67-82.  *)
(* Areas are held doubled (contourArea is a multiple of 1/2), so the test  *)
(* area < min_area or area > max_area compares against 2*min and 2*max.    *)
OutOfBandExclusive(area2, min_area, max_area) ==
    area2 <= 2 * min_area \/ area2 >= 2 * max_area

OutOfBandInverted(area2, min_area, max_area) ==
    area2 > 2 * min_area \/ area2 > 2 * max_area

OutOfBand(area2, min_area, max_area) ==
    area2 < 2 * min_area \/ area2 > 2 * max_area

AcceptAtFront(acc, c, area2) ==
    LET r == BoundingRect(c)
    IN  [centers |-> <<<<r[1] + r[3] \div 2, r[2] + r[4] \div 2>>>> \o acc.centers,
         boxes   |-> <<r>> \o acc.boxes,
         areas   |-> <<area2>> \o acc.areas]

AcceptWithoutBox(acc, c, area2) ==
    LET r == BoundingRect(c)
    IN  [centers |-> Append(acc.centers, <<r[1] + r[3] \div 2, r[2] + r[4] \div 2>>),
         boxes   |-> acc.boxes,
         areas   |-> Append(acc.areas, area2)]

Accept(acc, c, area2) ==
    LET r == BoundingRect(c)
        cx == r[1] + r[3] \div 2
        cy == r[2] + r[4] \div 2
    IN  [centers |-> Append(acc.centers, <<cx, cy>>),
         boxes   |-> Append(acc.boxes, r),
         areas   |-> Append(acc.areas, area2)]

RECURSIVE ContourLoop(_, _, _, _, _)
ContourLoop(cs, i, min_area, max_area, acc) ==
    IF i > Len(cs) THEN acc
    ELSE LET area2 == ContourArea2(cs[i])
         IN  IF OutOfBand(area2, min_area, max_area)
             THEN ContourLoop(cs, i + 1, min_area, max_area, acc)
             ELSE ContourLoop(cs, i + 1, min_area, max_area, Accept(acc, cs[i], area2))

FilterContours(cs, min_area, max_area) ==
    ContourLoop(cs, 1, min_area, max_area,
                [centers |-> <<>>, boxes |-> <<>>, areas |-> <<>>])

(* "labels": [f"{i} {a:.2f}" for i, a in enumerate(areas)]; a label is held *)
(* as the index, the doubled area and the number of decimals printed.      *)
Labels(areas, decimals) ==
    [i \in 1 .. Len(areas) |-> [index |-> i - 1, area2 |-> areas[i], decimals |-> decimals]]

Metadata(acc, decimals) ==
    [centers |-> acc.centers,
     boxes   |-> acc.boxes,
     areas   |-> acc.areas,
     labels  |-> Labels(acc.areas, decimals)]

(* otsu.py 42-87, percentile.py 47-92, fixed.py 47-91: the value returned   *)
(* is the tuple (thresh, contours, centers, metadata).                     *)
OtsuProcessFrame(th, cs, opts) ==
    LET acc == FilterContours(cs, opts.min_area, opts.max_area)
    IN  PyTuple(<<th, cs, acc.centers, Metadata(acc, 2)>>)

PercentileProcessFrame(th, cs, opts) ==
    LET acc == FilterContours(cs, opts.min_area, opts.max_area)
    IN  PyTuple(<<th, cs, acc.centers, Metadata(acc, 1)>>)

FixedProcessFrame(th, cs, opts) ==
    LET acc == FilterContours(cs, opts.min_area, opts.max_area)
    IN  PyTuple(<<th, cs, acc.centers, Metadata(acc, 1)>>)

(* cv2.distanceTransform(thresh, DIST_L2, 5): 5x5 chamfer distance in 16-bit *)
(* fixed point (1, 1.4 and 2.1969 as steps), over a work buffer whose      *)
(* two-cell border is preset to a large distance.                          *)
HvDist == 65536
DiagDist == 91750
LongDist == 143976
InitDist == 536870911

Abs(n) == IF n < 0 THEN -n ELSE n

ChamferCost(p, q) ==
    LET a == Abs(p[1] - q[1])
        b == Abs(p[2] - q[2])
        hi == IF a >= b THEN a ELSE b
        lo == IF a >= b THEN b ELSE a
    IN  IF hi >= 2 * lo
        THEN lo * LongDist + (hi - 2 * lo) * HvDist
        ELSE (hi - lo) * LongDist + (2 * lo - hi) * DiagDist

BorderCells == ((-2 .. FrameW + 1) \X (-2 .. FrameH + 1)) \ Pixels

DistanceTransform(mask) ==
    Array([p \in Pixels |->
        IF mask[p] = 0 THEN 0
        ELSE SetMin({ChamferCost(p, q) : q \in Pixels \ Foreground(mask)}
                    \cup {InitDist + ChamferCost(p, b) : b \in BorderCells})])

(* peaks.py, lines 35-47: the cleaned mask and its local-maximum mask *)
PeaksMask(img, marginPct, blur_size, clean_size) ==
    PeaksClean(MarginBinary(Smooth(img, blur_size), marginPct), clean_size)

LocalMaxWithBackground(th, peak_size) ==
    LET dist == DistanceTransform(th)
        dist_dil == Dilate(dist, EllipseKernel(peak_size))
    IN  Array([p \in Pixels |-> IF dist[p] = dist_dil[p] THEN 255 ELSE 0])

LocalMax(th, peak_size) ==
    LET dist == DistanceTransform(th)
        dist_dil == Dilate(dist, EllipseKernel(peak_size))
    IN  Array([p \in Pixels |-> IF dist[p] = dist_dil[p] /\ dist[p] > 0 THEN 255 ELSE 0])

(* cv2.connectedComponentsWithStats(local_max, 8): the 8-connected regions  *)
(* in label order, which the interface does not fix.                       *)
ConnectedComponents(mask) == Orderings(Regions(mask))

(* peaks.py, lines 51-55: centroids[i] truncated by int() *)
Centroid(c) ==
    LET n == Cardinality(c)
        SumOf(axis) == SumTo([t \in 1 .. NumPixels |->
                          IF PixelAt(t) \in c THEN PixelAt(t)[axis] ELSE 0], NumPixels)
    IN  <<SumOf(1) \div n, SumOf(2) \div n>>

PeakCenters(comps) == [i \in 1 .. Len(comps) |-> Centroid(comps[i])]

(* peaks.py, lines 60-93: the value returned is the metadata dict alone *)
PeaksProcessFrame(comps) ==
    PyDict([centers |-> PeakCenters(comps),
            boxes   |-> <<>>,
            areas   |-> <<>>,
            labels  |-> <<>>])

-----------------------------------------------------------------------------
(* Bounds of the detectors' inputs *)

MaxArea == 2

BlurSizes == {1, 3}
CleanSizes == {1, 3}
PeakSizes == {1, 3, 15}
Percentiles == {0, 50, 100}
MarginPcts == {0, 50, 100}
Areas == 0 .. MaxArea

OtsuOptions ==
    [blur_size : BlurSizes, clean_size : CleanSizes, min_area : Areas, max_area : Areas]

PercentileOptions ==
    [percentile : Percentiles, blur_size : BlurSizes, clean_size : CleanSizes,
     min_area : Areas, max_area : Areas]

FixedOptions ==
    [margin : MarginPcts, blur_size : BlurSizes, clean_size : CleanSizes,
     min_area : Areas, max_area : Areas]

PeaksOptions ==
    [margin : MarginPcts, blur_size : BlurSizes, clean_size : CleanSizes,
     peak_size : PeakSizes]

(* Option values as the dataclasses accept them: any number, in the        *)
(* documented range or outside it.                                         *)
AnyBlurSizes == BlurSizes \cup {2}
AnyPercentiles == Percentiles \cup {150}
AnyMarginPcts == MarginPcts \cup {200}
AnyAreas == -1 .. MaxArea

AnyOtsuOptions ==
    [blur_size : AnyBlurSizes, clean_size : CleanSizes, min_area : AnyAreas,
     max_area : AnyAreas]

AnyPercentileOptions ==
    [percentile : AnyPercentiles, blur_size : AnyBlurSizes, clean_size : CleanSizes,
     min_area : AnyAreas, max_area : AnyAreas]

AnyFixedOptions ==
    [margin : AnyMarginPcts, blur_size : AnyBlurSizes, clean_size : CleanSizes,
     min_area : AnyAreas, max_area : AnyAreas]

AnyPeaksOptions ==
    [margin : AnyMarginPcts, blur_size : AnyBlurSizes, clean_size : CleanSizes,
     peak_size : PeakSizes]

(* frames whose two rows are equal *)
ColumnFrames == {f \in Frames : \A p \in Pixels : f[p] = f[<<p[1], 0>>]}

-----------------------------------------------------------------------------
(* One call of the selected detector, ALGORITHMS[algo].process_frame *)

DetectIdle ==
    /\ frame = <<>>
    /\ algo = "none"
    /\ options = <<>>
    /\ blur = <<>>
    /\ thresh_val = 0
    /\ binary = <<>>
    /\ thresh = <<>>
    /\ contours = <<>>
    /\ components = <<>>
    /\ result = NoValue
    /\ ops = <<>>
    /\ dpc = "idle"

DetectInit ==
    /\ frame \in Frames
    /\ \/ algo = "otsu" /\ options \in OtsuOptions
       \/ algo = "percentile" /\ options \in PercentileOptions
       \/ algo = "fixed" /\ options \in FixedOptions
       \/ algo = "peaks" /\ options \in PeaksOptions
    /\ blur = <<>>
    /\ thresh_val = 0
    /\ binary = <<>>
    /\ thresh = <<>>
    /\ contours = <<>>
    /\ components = <<>>
    /\ result = NoValue
    /\ ops = <<>>
    /\ dpc = "call"

(* cv2.GaussianBlur accepts a kernel size only if it is odd and positive;  *)
(* np.percentile accepts q only in [0, 100].  Nothing else is checked: the *)
(* options dataclasses and process_frame pass every value on as given.     *)
OddPositive(n) == n > 0 /\ n % 2 = 1

BlurOps == <<"cvtColor", "GaussianBlur">>

OtsuOps == BlurOps \o <<"threshold", "getStructuringElement", "morphologyEx",
                        "morphologyEx", "findContours">>

PercentileOps == BlurOps \o <<"percentile", "threshold", "getStructuringElement",
                              "morphologyEx", "morphologyEx", "findContours">>

FixedOps == BlurOps \o <<"minMaxLoc", "threshold", "getStructuringElement",
                         "morphologyEx", "morphologyEx", "findContours">>

PeaksOps == BlurOps \o <<"minMaxLoc", "threshold", "getStructuringElement",
                         "morphologyEx", "distanceTransform", "getStructuringElement",
                         "dilate", "connectedComponentsWithStats">>

(* a call with options of any value, on a frame of equal rows *)
OptionsInit ==
    /\ frame \in ColumnFrames
    /\ \/ algo = "otsu" /\ options \in AnyOtsuOptions
       \/ algo = "percentile" /\ options \in AnyPercentileOptions
       \/ algo = "fixed" /\ options \in AnyFixedOptions
       \/ algo = "peaks" /\ options \in AnyPeaksOptions
    /\ blur = <<>>
    /\ thresh_val = 0
    /\ binary = <<>>
    /\ thresh = <<>>
    /\ contours = <<>>
    /\ components = <<>>
    /\ result = NoValue
    /\ ops = <<>>
    /\ dpc = "call"

DetectOtsu ==
    /\ dpc = "call"
    /\ algo = "otsu"
    /\ IF ~OddPositive(options.blur_size)
       THEN /\ result' = PyRaise("cv2.error")
            /\ ops' = BlurOps
            /\ dpc' = "raised"
            /\ UNCHANGED <<blur, thresh_val, binary, thresh, contours>>
       ELSE LET bl == Smooth(frame, options.blur_size)
                bin == OtsuBinary(bl)
                th == OtsuClean(bin, options.clean_size)
            IN  \E cs \in FindContours(th) :
                   /\ blur' = bl
                   /\ thresh_val' = 100 * OtsuLevel(bl)
                   /\ binary' = bin
                   /\ thresh' = th
                   /\ contours' = cs
                   /\ result' = OtsuProcessFrame(th, cs, options)
                   /\ ops' = OtsuOps
                   /\ dpc' = "returned"
    /\ UNCHANGED <<frame, algo, options, components>>
    /\ UNCHANGED <<lineVars, loopVars>>

DetectPercentile ==
    /\ dpc = "call"
    /\ algo = "percentile"
    /\ IF ~OddPositive(options.blur_size)
       THEN /\ result' = PyRaise("cv2.error")
            /\ ops' = BlurOps
            /\ dpc' = "raised"
            /\ UNCHANGED <<blur, thresh_val, binary, thresh, contours>>
       ELSE IF options.percentile \notin 0 .. 100
       THEN /\ result' = PyRaise("ValueError")
            /\ ops' = BlurOps \o <<"percentile">>
            /\ dpc' = "raised"
            /\ UNCHANGED <<blur, thresh_val, binary, thresh, contours>>
       ELSE LET bl == Smooth(frame, options.blur_size)
                bin == PercentileBinary(bl, options.percentile)
                th == PercentileClean(bin, options.clean_size)
            IN  \E cs \in FindContours(th) :
                   /\ blur' = bl
                   /\ thresh_val' = Percentile100(bl, options.percentile)
                   /\ binary' = bin
                   /\ thresh' = th
                   /\ contours' = cs
                   /\ result' = PercentileProcessFrame(th, cs, options)
                   /\ ops' = PercentileOps
                   /\ dpc' = "returned"
    /\ UNCHANGED <<frame, algo, options, components>>
    /\ UNCHANGED <<lineVars, loopVars>>

DetectFixed ==
    /\ dpc = "call"
    /\ algo = "fixed"
    /\ IF ~OddPositive(options.blur_size)
       THEN /\ result' = PyRaise("cv2.error")
            /\ ops' = BlurOps
            /\ dpc' = "raised"
            /\ UNCHANGED <<blur, thresh_val, binary, thresh, contours>>
       ELSE LET bl == Smooth(frame, options.blur_size)
                bin == MarginBinary(bl, options.margin)
                th == FixedClean(bin, options.clean_size)
            IN  \E cs \in FindContours(th) :
                   /\ blur' = bl
                   /\ thresh_val' = 100 * MarginLevel(bl, options.margin)
                   /\ binary' = bin
                   /\ thresh' = th
                   /\ contours' = cs
                   /\ result' = FixedProcessFrame(th, cs, options)
                   /\ ops' = FixedOps
                   /\ dpc' = "returned"
    /\ UNCHANGED <<frame, algo, options, components>>
    /\ UNCHANGED <<lineVars, loopVars>>

DetectPeaks ==
    /\ dpc = "call"
    /\ algo = "peaks"
    /\ IF ~OddPositive(options.blur_size)
       THEN /\ result' = PyRaise("cv2.error")
            /\ ops' = BlurOps
            /\ dpc' = "raised"
            /\ UNCHANGED <<blur, thresh_val, binary, thresh, components>>
       ELSE LET bl == Smooth(frame, options.blur_size)
                bin == MarginBinary(bl, options.margin)
                th == PeaksClean(bin, options.clean_size)
            IN  \E comps \in ConnectedComponents(LocalMax(th, options.peak_size)) :
                   /\ blur' = bl
                   /\ thresh_val' = 100 * MarginLevel(bl, options.margin)
                   /\ binary' = bin
                   /\ thresh' = th
                   /\ components' = comps
                   /\ result' = PeaksProcessFrame(comps)
                   /\ ops' = PeaksOps
                   /\ dpc' = "returned"
    /\ UNCHANGED <<frame, algo, options, contours>>
    /\ UNCHANGED <<lineVars, loopVars>>

DetectNext == DetectOtsu \/ DetectPercentile \/ DetectFixed \/ DetectPeaks

-----------------------------------------------------------------------------
(* Bounds of the connector's inputs *)

MaxCenters == 4
MaxX == 1
MaxDegree == 3
MaxRuns == 2

CenterXs == 0 .. MaxX
CenterYs == {0, 5}
Points == CenterXs \X CenterYs
CenterLists == UNION {[1 .. n -> Points] : n \in 0 .. MaxCenters}

-----------------------------------------------------------------------------
(* lines.draw_frame, lines 31-38: enumerate the pairs i < j with their     *)
(* squared distance, i outer, j inner.                                     *)

D2(p, q) ==
    LET dx == p[1] - q[1]
        dy == p[2] - q[2]
    IN  dx * dx + dy * dy

RECURSIVE InnerLoopFromSelf(_, _, _)
InnerLoopFromSelf(cs, i, j) ==
    IF j > Len(cs)
    THEN <<>>
    ELSE <<<<D2(cs[i + 1], cs[j]), i, j - 1>>>> \o InnerLoopFromSelf(cs, i, j + 1)

RECURSIVE InnerLoop(_, _, _)
InnerLoop(cs, i, j) ==
    IF j >= Len(cs)
    THEN <<>>
    ELSE <<<<D2(cs[i + 1], cs[j + 1]), i, j>>>> \o InnerLoop(cs, i, j + 1)

RECURSIVE OuterLoop(_, _)
OuterLoop(cs, i) ==
    IF i >= Len(cs)
    THEN <<>>
    ELSE InnerLoop(cs, i, i + 1) \o OuterLoop(cs, i + 1)

EnumeratePairs(cs) == OuterLoop(cs, 0)

(* lines.draw_frame, line 40: pairs.sort(key=lambda t: t[0]).  list.sort   *)
(* is stable: an element goes after every element whose key is <= its own. *)

RECURSIVE InsertBeforeEqual(_, _)
InsertBeforeEqual(s, t) ==
    IF s = <<>> THEN <<t>>
    ELSE IF t[1] <= Head(s)[1] THEN <<t>> \o s
    ELSE <<Head(s)>> \o InsertBeforeEqual(Tail(s), t)

RECURSIVE InsertByKey(_, _)
InsertByKey(s, t) ==
    IF s = <<>> THEN <<t>>
    ELSE IF t[1] < Head(s)[1] THEN <<t>> \o s
    ELSE <<Head(s)>> \o InsertByKey(Tail(s), t)

RECURSIVE SortByKey(_)
SortByKey(s) ==
    IF s = <<>> THEN <<>>
    ELSE InsertByKey(SortByKey(SubSeq(s, 1, Len(s) - 1)), s[Len(s)])

KeepEnumerationOrder(cs) == EnumeratePairs(cs)

SortedPairs(cs) == SortByKey(EnumeratePairs(cs))

(* lines.draw_frame, line 42: deg = [0] * len(centers) *)

CarriedOverDeg(n) ==
    IF runs > 0 /\ DOMAIN deg = 0 .. n - 1 THEN deg ELSE [i \in 0 .. n - 1 |-> 0]

NewDeg(n) == [i \in 0 .. n - 1 |-> 0]

(* lines.draw_frame, line 44: the rejection test of the scan loop *)

SaturatedAbove(d, i, j, maxDeg) == d[i] > maxDeg \/ d[j] > maxDeg

SaturatedEarly(d, i, j, maxDeg) == d[i] + 1 >= maxDeg \/ d[j] + 1 >= maxDeg

Saturated(d, i, j, maxDeg) == d[i] >= maxDeg \/ d[j] >= maxDeg

-----------------------------------------------------------------------------
(* The connector as a state machine *)

LinesIdle ==
    /\ centers = <<>>
    /\ degree = 0
    /\ pairs = <<>>
    /\ k = 0
    /\ deg = <<>>
    /\ edges = <<>>
    /\ pc = "idle"
    /\ runs = 0
    /\ prevEdges = <<>>

LinesInit ==
    /\ centers \in CenterLists
    /\ degree \in 0 .. MaxDegree
    /\ pairs = <<>>
    /\ k = 0
    /\ deg = <<>>
    /\ edges = <<>>
    /\ pc = "call"
    /\ runs = 0
    /\ prevEdges = <<>>
    /\ DetectIdle
    /\ LoopIdle

(* lines 29-42: read the centers, build and sort the pairs, zero deg *)
DrawLinesBegin ==
    /\ pc = "call"
    /\ pairs' = SortedPairs(centers)
    /\ deg' = NewDeg(Len(centers))
    /\ edges' = <<>>
    /\ k' = 0
    /\ pc' = "scan"
    /\ UNCHANGED <<centers, degree, runs, prevEdges>>
    /\ UNCHANGED <<detectVars, loopVars>>

(* lines 43-56: one iteration of the scan loop *)
ScanStep ==
    /\ pc = "scan"
    /\ k < Len(pairs)
    /\ LET i == pairs[k + 1][2]
           j == pairs[k + 1][3]
       IN  IF Saturated(deg, i, j, degree)
           THEN UNCHANGED <<deg, edges>>
           ELSE /\ edges' = Append(edges, <<i, j>>)
                /\ deg' = [deg EXCEPT ![i] = @ + 1, ![j] = @ + 1]
    /\ k' = k + 1
    /\ UNCHANGED <<centers, degree, pairs, pc, runs, prevEdges>>
    /\ UNCHANGED <<detectVars, loopVars>>

(* the loop is exhausted and draw_frame returns *)
DrawLinesEnd ==
    /\ pc = "scan"
    /\ k = Len(pairs)
    /\ pc' = "done"
    /\ runs' = runs + 1
    /\ UNCHANGED <<centers, degree, pairs, k, deg, edges, prevEdges>>
    /\ UNCHANGED <<detectVars, loopVars>>

(* app.py, lines 134-137: the frame loop calls lines.draw again; here the  *)
(* next frame has the same centers and the same options.                   *)
DrawLinesAgain ==
    /\ pc = "done"
    /\ runs < MaxRuns
    /\ prevEdges' = edges
    /\ pc' = "call"
    /\ UNCHANGED <<centers, degree, pairs, k, deg, edges, runs>>
    /\ UNCHANGED <<detectVars, loopVars>>

LinesNext == DrawLinesBegin \/ ScanStep \/ DrawLinesEnd \/ DrawLinesAgain

SpecLines == LinesInit /\ [][LinesNext]_vars

SpecDetectInit == DetectInit /\ LinesIdle /\ LoopIdle

SpecDetect == SpecDetectInit /\ [][DetectNext]_vars

SpecOptionsInit == OptionsInit /\ LinesIdle /\ LoopIdle

SpecOptions == SpecOptionsInit /\ [][DetectNext]_vars

-----------------------------------------------------------------------------
(* The renderers as app.py calls them.  A call is modelled by its outcome: *)
(* the exception it raises, or "none", and the number of shapes drawn.     *)

HasLen(v) == v.type \in {"list", "tuple", "dict"}

PyLen(v) == IF v.type = "dict" THEN Cardinality(DOMAIN v.items) ELSE Len(v.items)

(* metadata.get("labels"), app.py lines 127 and 132: a tuple has no get *)
GetLabels(md) ==
    IF md.type = "dict"
    THEN [error |-> "none", value |-> PyList(md.items.labels)]
    ELSE [error |-> "AttributeError", value |-> NoValue]

(* After drawing shape i (0-based), labels[i] is read when labels is given *)
DrawLabelled(n, labelsArg) ==
    IF labelsArg.type = "none" \/ Len(labelsArg.items) >= n
    THEN [error |-> "none", shapes |-> n]
    ELSE [error |-> "IndexError", shapes |-> Len(labelsArg.items) + 1]

(* stars.py, lines 22-75: draw_frame(img, centers, boxes, *, labels, options) *)
StarsDrawFrame(centersArg, boxesArg, labelsArg) ==
    IF ~HasLen(centersArg) \/ ~HasLen(boxesArg)
    THEN [error |-> "TypeError", shapes |-> 0]
    ELSE IF PyLen(centersArg) # PyLen(boxesArg)
    THEN [error |-> "AssertionError", shapes |-> 0]
    ELSE IF PyLen(centersArg) = 0
    THEN [error |-> "none", shapes |-> 0]
    ELSE IF centersArg.type # "list" \/ boxesArg.type # "list"
    THEN [error |-> "ValueError", shapes |-> 0]
    ELSE DrawLabelled(PyLen(centersArg), labelsArg)

(* boxes.py, lines 21-62: draw_frame(frame, metadata, options, *, labels) *)
BoxesDrawFrame(metadataArg, labelsArg) ==
    IF metadataArg.type # "dict"
    THEN [error |-> "TypeError", shapes |-> 0]
    ELSE DrawLabelled(Len(metadataArg.items.boxes), labelsArg)

-----------------------------------------------------------------------------
(* app.py, lines 109-144: the frame loop *)

MaxFrames == 2

(* LinesOptions.degree: draw_params["lines"] sets colour and thickness only *)
DefaultDegree == 2

White == <<255, 255, 255>>
Black == <<0, 0, 0>>

(* a frame with a bright column at x = 0 and a bright block from x = 2 on *)
TwoBlobFrame == [p \in Pixels |-> IF p[1] = 1 THEN Black ELSE White]

DarkFrame == [p \in Pixels |-> Black]

LoopFrames == {DarkFrame, TwoBlobFrame}

Videos == UNION {[1 .. n -> LoopFrames] : n \in 0 .. MaxFrames}

AlgorithmKeys == {"otsu", "percentile", "fixed", "peaks"}

LoopOptions(key) ==
    CASE key = "otsu" ->
           [blur_size |-> 1, clean_size |-> 1, min_area |-> 0, max_area |-> MaxArea]
      [] key = "percentile" ->
           [percentile |-> 50, blur_size |-> 1, clean_size |-> 1,
            min_area |-> 0, max_area |-> MaxArea]
      [] key = "fixed" ->
           [margin |-> 50, blur_size |-> 1, clean_size |-> 1,
            min_area |-> 0, max_area |-> MaxArea]
      [] key = "peaks" ->
           [margin |-> 50, blur_size |-> 1, clean_size |-> 1, peak_size |-> 1]

LoopInit ==
    /\ video \in Videos
    /\ n_frames \in 0 .. MaxFrames
    /\ frame_i = 0
    /\ enabled \in [stars : BOOLEAN, boxes : BOOLEAN, lines : BOOLEAN]
    /\ metadata = NoValue
    /\ drawn = NoDraws
    /\ reads = <<>>
    /\ written = <<>>
    /\ error = "none"
    /\ lpc = "read"
    /\ frame = <<>>
    /\ algo \in AlgorithmKeys
    /\ options = LoopOptions(algo)
    /\ blur = <<>>
    /\ thresh_val = 0
    /\ binary = <<>>
    /\ thresh = <<>>
    /\ contours = <<>>
    /\ components = <<>>
    /\ result = NoValue
    /\ ops = <<>>
    /\ dpc = "idle"
    /\ LinesIdle

(* line 110: range(n_frames) is exhausted *)
LoopExhausted ==
    /\ lpc = "read"
    /\ frame_i >= n_frames
    /\ lpc' = "done"
    /\ UNCHANGED <<video, n_frames, frame_i, enabled, metadata, drawn, reads, written, error>>
    /\ UNCHANGED <<lineVars, detectVars>>

(* lines 111-114: cap.read() returns ok = False, and the loop breaks *)
LoopReadFail ==
    /\ lpc = "read"
    /\ frame_i < n_frames
    /\ frame_i >= Len(video)
    /\ lpc' = "done"
    /\ UNCHANGED <<video, n_frames, frame_i, enabled, metadata, drawn, reads, written, error>>
    /\ UNCHANGED <<lineVars, detectVars>>

(* lines 111-120: cap.read() returns a frame; process_frame is called *)
LoopReadOk ==
    /\ lpc = "read"
    /\ frame_i < n_frames
    /\ frame_i < Len(video)
    /\ frame' = video[frame_i + 1]
    /\ reads' = Append(reads, frame_i)
    /\ drawn' = NoDraws
    /\ dpc' = "call"
    /\ lpc' = "detect"
    /\ UNCHANGED <<video, n_frames, frame_i, enabled, metadata, written, error>>
    /\ UNCHANGED <<algo, options, blur, thresh_val, binary, thresh, contours, components,
                   result, ops>>
    /\ UNCHANGED lineVars

(* line 120: process_frame has ended; its value is bound to metadata, or   *)
(* its exception leaves the loop                                           *)
LoopBind ==
    /\ lpc = "detect"
    /\ dpc \in {"returned", "raised"}
    /\ IF dpc = "raised"
       THEN error' = result.items /\ lpc' = "failed" /\ UNCHANGED metadata
       ELSE metadata' = result /\ lpc' = "stars" /\ UNCHANGED error
    /\ UNCHANGED <<video, n_frames, frame_i, enabled, drawn, reads, written>>
    /\ UNCHANGED <<lineVars, detectVars>>

(* lines 124-127: stars.draw(overlay, metadata, stars_options,             *)
(* labels=metadata.get("labels")): metadata is bound to the parameter      *)
(* centers and stars_options to the parameter boxes                        *)
LoopStars ==
    /\ lpc = "stars"
    /\ IF ~enabled.stars
       THEN lpc' = "boxes" /\ UNCHANGED <<drawn, error>>
       ELSE LET labels == GetLabels(metadata)
                r == StarsDrawFrame(metadata, PyObject("StarsOptions"), labels.value)
            IN  IF labels.error # "none"
                THEN error' = labels.error /\ lpc' = "failed" /\ UNCHANGED drawn
                ELSE /\ drawn' = [drawn EXCEPT !.stars = r.shapes]
                     /\ error' = r.error
                     /\ lpc' = IF r.error = "none" THEN "boxes" ELSE "failed"
    /\ UNCHANGED <<video, n_frames, frame_i, enabled, metadata, reads, written>>
    /\ UNCHANGED <<lineVars, detectVars>>

(* lines 129-132: boxes.draw(overlay, metadata, boxes_options,             *)
(* labels=metadata.get("labels"))                                          *)
LoopBoxes ==
    /\ lpc = "boxes"
    /\ IF ~enabled.boxes
       THEN lpc' = "lines" /\ UNCHANGED <<drawn, error>>
       ELSE LET labels == GetLabels(metadata)
                r == BoxesDrawFrame(metadata, labels.value)
            IN  IF labels.error # "none"
                THEN error' = labels.error /\ lpc' = "failed" /\ UNCHANGED drawn
                ELSE /\ drawn' = [drawn EXCEPT !.boxes = r.shapes]
                     /\ error' = r.error
                     /\ lpc' = IF r.error = "none" THEN "lines" ELSE "failed"
    /\ UNCHANGED <<video, n_frames, frame_i, enabled, metadata, reads, written>>
    /\ UNCHANGED <<lineVars, detectVars>>

(* lines 134-137: lines.draw(overlay, metadata, lines_options); line 29 of *)
(* lines.py reads metadata["centers"], which a tuple does not support      *)
LoopLines ==
    /\ lpc = "lines"
    /\ IF ~enabled.lines
       THEN lpc' = "write" /\ UNCHANGED <<error, centers, degree, pc>>
       ELSE IF metadata.type # "dict"
       THEN error' = "TypeError" /\ lpc' = "failed" /\ UNCHANGED <<centers, degree, pc>>
       ELSE /\ centers' = metadata.items.centers
            /\ degree' = DefaultDegree
            /\ pc' = "call"
            /\ lpc' = "connect"
            /\ UNCHANGED error
    /\ UNCHANGED <<video, n_frames, frame_i, enabled, metadata, drawn, reads, written>>
    /\ UNCHANGED <<pairs, k, deg, edges, runs, prevEdges>>
    /\ UNCHANGED detectVars

(* lines.draw has returned *)
LoopLinesReturn ==
    /\ lpc = "connect"
    /\ pc = "done"
    /\ drawn' = [drawn EXCEPT !.lines = Len(edges)]
    /\ pc' = "idle"
    /\ lpc' = "write"
    /\ UNCHANGED <<video, n_frames, frame_i, enabled, metadata, reads, written, error>>
    /\ UNCHANGED <<centers, degree, pairs, k, deg, edges, runs, prevEdges>>
    /\ UNCHANGED detectVars

(* lines 139-141: out.write(overlay), and the next iteration *)
LoopWrite ==
    /\ lpc = "write"
    /\ written' = Append(written, frame_i)
    /\ frame_i' = frame_i + 1
    /\ lpc' = "read"
    /\ UNCHANGED <<video, n_frames, enabled, metadata, drawn, reads, error>>
    /\ UNCHANGED <<lineVars, detectVars>>

LoopNext ==
    \/ LoopExhausted \/ LoopReadFail \/ LoopReadOk
    \/ DetectOtsu \/ DetectPercentile \/ DetectFixed \/ DetectPeaks
    \/ LoopBind \/ LoopStars \/ LoopBoxes \/ LoopLines
    \/ DrawLinesBegin \/ ScanStep \/ DrawLinesEnd
    \/ LoopLinesReturn \/ LoopWrite

SpecLoop == LoopInit /\ [][LoopNext]_vars

-----------------------------------------------------------------------------
(* Properties of the connector *)

Indices == 0 .. Len(centers) - 1

EndpointCount(i) ==
    Cardinality({e \in 1 .. Len(edges) : edges[e][1] = i \/ edges[e][2] = i})

EdgeD2(e) == D2(centers[e[1] + 1], centers[e[2] + 1])

EnumeratedBefore(e, f) == e[1] < f[1] \/ (e[1] = f[1] /\ e[2] < f[2])

\* C1: at every step of the scan and at its end, every index is an endpoint
\* of at most max_degree emitted edges, and deg counts exactly those edges.
C1_DegreeInvariant ==
    /\ \A i \in Indices : EndpointCount(i) <= degree
    /\ pc \in {"scan", "done"} =>
          \A i \in Indices : deg[i] = EndpointCount(i) /\ deg[i] <= degree

C1_Witness ==
    /\ pc = "done"
    /\ degree >= 1
    /\ Len(edges) < Len(pairs)
    /\ \E i \in Indices : EndpointCount(i) = degree

\* C2: with fewer than two centers, or with max_degree = 0, no edge is emitted.
C2_EmptyOutput ==
    (Len(centers) <= 1 \/ degree = 0) => edges = <<>>

C2_Witness ==
    /\ pc = "done"
    /\ degree = 0
    /\ Len(centers) >= 2
    /\ k = Len(pairs)
    /\ Len(pairs) >= 1

\* C3: the candidates are scanned, and the edges emitted, by non-decreasing
\* squared distance, equal distances in enumeration order (i, j), i < j.
C3_AcceptanceOrder ==
    /\ pc \in {"scan", "done"} =>
          \A a, b \in 1 .. Len(pairs) :
              a < b =>
                  \/ pairs[a][1] < pairs[b][1]
                  \/ /\ pairs[a][1] = pairs[b][1]
                     /\ EnumeratedBefore(<<pairs[a][2], pairs[a][3]>>,
                                         <<pairs[b][2], pairs[b][3]>>)
    /\ \A a, b \in 1 .. Len(edges) :
          a < b =>
              \/ EdgeD2(edges[a]) < EdgeD2(edges[b])
              \/ /\ EdgeD2(edges[a]) = EdgeD2(edges[b])
                 /\ EnumeratedBefore(edges[a], edges[b])

C3_Witness ==
    /\ pc = "done"
    /\ \E a \in 1 .. Len(edges) - 1 :
          /\ EdgeD2(edges[a]) = EdgeD2(edges[a + 1])
          /\ EdgeD2(edges[a]) > 0
    /\ \E a \in 1 .. Len(edges) - 1 : EdgeD2(edges[a]) < EdgeD2(edges[a + 1])

\* C4: a second call of the connector on the same centers and the same
\* max_degree emits the same edges in the same order as the first call.
C4_Determinism ==
    (pc = "done" /\ runs >= 2) => edges = prevEdges

C4_Witness ==
    /\ pc = "done"
    /\ runs = 2
    /\ Len(edges) >= 2
    /\ Len(edges) < Len(pairs)
    /\ edges = prevEdges

\* C5: centers (0,0),(1,0),(0,5),(1,5) with max_degree 2 give exactly the
\* edges (0,0)-(1,0), (0,5)-(1,5), (0,0)-(0,5), (1,0)-(1,5), in that order,
\* the diagonals are rejected, and every point ends at degree 2.
ScenarioCenters == <<<<0, 0>>, <<1, 0>>, <<0, 5>>, <<1, 5>>>>

C5_Scenario ==
    (centers = ScenarioCenters /\ degree = 2 /\ pc = "done") =>
        /\ edges = <<<<0, 1>>, <<2, 3>>, <<0, 2>>, <<1, 3>>>>
        /\ \A i \in Indices : deg[i] = 2
        /\ \A e \in 1 .. Len(edges) : edges[e] \notin {<<0, 3>>, <<1, 2>>}

C5_Witness ==
    /\ centers = ScenarioCenters
    /\ degree = 2
    /\ pc = "done"
    /\ Len(pairs) = 6
    /\ Len(edges) = 4

\* C18: when the scan has ended, any two distinct indices that both still
\* have degree < max_degree are joined by an emitted edge; every candidate
\* pair that was not emitted has an endpoint of degree exactly max_degree.
C18_Maximality ==
    pc = "done" =>
        \A i, j \in Indices :
            i < j =>
                /\ EndpointCount(i) < degree /\ EndpointCount(j) < degree
                      => \E e \in 1 .. Len(edges) : edges[e] = <<i, j>>
                /\ (\A e \in 1 .. Len(edges) : edges[e] # <<i, j>>)
                      => EndpointCount(i) = degree \/ EndpointCount(j) = degree

C18_Witness ==
    /\ pc = "done"
    /\ degree >= 1
    /\ \E i \in Indices : EndpointCount(i) < degree
    /\ \E i, j \in Indices :
          /\ i < j
          /\ \A e \in 1 .. Len(edges) : edges[e] # <<i, j>>
    /\ Len(edges) >= 2

\* C19: every emitted edge (i, j) has 0 <= i < j < len(centers), no
\* unordered pair is emitted twice even when centers coincide, and at most
\* floor(len(centers) * max_degree / 2) edges are emitted.
C19_WellFormed ==
    pc \in {"scan", "done"} =>
        /\ \A e \in 1 .. Len(edges) :
              /\ 0 <= edges[e][1]
              /\ edges[e][1] < edges[e][2]
              /\ edges[e][2] < Len(centers)
        /\ \A e, f \in 1 .. Len(edges) :
              e # f => {edges[e][1], edges[e][2]} # {edges[f][1], edges[f][2]}
        /\ Len(edges) <= (Len(centers) * degree) \div 2

C19_Witness ==
    /\ pc = "done"
    /\ Len(centers) = 3
    /\ centers[1] = centers[2]
    /\ centers[2] = centers[3]
    /\ degree = 2
    /\ Len(edges) = 3

IndexPairs == {e \in Indices \X Indices : e[1] < e[2]}

\* the pair of least squared distance, the first enumerated among equals
IsClosestPair(e) ==
    /\ e \in IndexPairs
    /\ \A f \in IndexPairs :
          \/ e = f
          \/ EdgeD2(e) < EdgeD2(f)
          \/ EdgeD2(e) = EdgeD2(f) /\ EnumeratedBefore(e, f)

\* C21: with at least two centers and max_degree >= 1, every degree is zero
\* when the scan starts, so the first candidate scanned is accepted: the
\* first edge emitted is the pair of least squared distance, the first such
\* pair in enumeration order when several tie, and it is always emitted.
C21_ClosestPairFirst ==
    (Len(centers) >= 2 /\ degree >= 1 /\ pc \in {"scan", "done"}) =>
        /\ k = 0 => edges = <<>> /\ \A i \in Indices : deg[i] = 0
        /\ k >= 1 => Len(edges) >= 1
        /\ pc = "done" => Len(edges) >= 1
        /\ Len(edges) >= 1 => IsClosestPair(edges[1])

C21_Witness ==
    /\ pc = "done"
    /\ degree >= 1
    /\ Len(centers) >= 3
    /\ Len(edges) >= 2
    /\ edges[1] # <<0, 1>>
    /\ EdgeD2(edges[1]) < EdgeD2(<<0, 1>>)
    /\ \E f \in IndexPairs : f # edges[1] /\ EdgeD2(f) = EdgeD2(edges[1])

-----------------------------------------------------------------------------
(* Properties of the detectors *)

FieldNames == {"centers", "boxes", "areas", "labels"}

ContourVariants == {"otsu", "percentile", "fixed"}

(* the metadata dict built by process_frame: the returned value itself for  *)
(* peaks, the fourth element of the returned tuple for the other three      *)
ResultMetadata == IF result.type = "tuple" THEN result.items[4] ELSE result.items

ZeroFrame == DarkFrame

InBand(area2) == 2 * options.min_area <= area2 /\ area2 <= 2 * options.max_area

(* indices of the contours whose area lies in the band, in contour order *)
AcceptedIndices == SelectSeq([j \in 1 .. Len(contours) |-> j],
                             LAMBDA j : InBand(ContourArea2(contours[j])))

(* C6: every variant returns one record with the fields centers, boxes,     *)
(* areas and labels, which the frame loop reads by key.  The code returns   *)
(* that record from peaks only; otsu, percentile and fixed return a tuple.  *)
C6_UniformShape ==
    dpc = "returned" =>
        /\ result.type = "dict"
        /\ DOMAIN result.items = FieldNames

(* C7: boxes, areas and labels are each empty or as long as centers,        *)
(* position i of every field describes the same accepted blob, and          *)
(* len(centers) is the number of blobs that passed the filter.              *)
C7_CoIndexed ==
    dpc = "returned" =>
        LET md == ResultMetadata
            n == Len(md.centers)
        IN  /\ DOMAIN md = FieldNames
            /\ Len(md.boxes) \in {0, n}
            /\ Len(md.areas) \in {0, n}
            /\ Len(md.labels) \in {0, n}
            /\ algo \in ContourVariants =>
                  /\ n = Len(AcceptedIndices)
                  /\ Len(md.boxes) = n /\ Len(md.areas) = n /\ Len(md.labels) = n
                  /\ \A i \in 1 .. n :
                        LET c == contours[AcceptedIndices[i]]
                            r == BoundingRect(c)
                        IN  /\ md.boxes[i] = r
                            /\ md.centers[i] = <<r[1] + r[3] \div 2, r[2] + r[4] \div 2>>
                            /\ md.areas[i] = ContourArea2(c)
                            /\ md.labels[i].index = i - 1
                            /\ md.labels[i].area2 = ContourArea2(c)
            /\ algo = "peaks" =>
                  /\ n = Len(components)
                  /\ \A i \in 1 .. n : md.centers[i] = Centroid(components[i])

C7_Witness ==
    /\ dpc = "returned"
    /\ algo \in ContourVariants
    /\ Len(ResultMetadata.centers) >= 1
    /\ Len(contours) > Len(ResultMetadata.centers)
    /\ Len(ResultMetadata.boxes) = Len(ResultMetadata.centers)

(* C8: for otsu, percentile and fixed every reported area a satisfies       *)
(* min_area <= a <= max_area, and a contour whose area equals min_area or   *)
(* max_area (and lies in the band) is reported.                             *)
C8_AreaBand ==
    dpc = "returned" /\ algo \in ContourVariants =>
        LET md == ResultMetadata
        IN  /\ \A i \in 1 .. Len(md.areas) :
                  /\ 2 * options.min_area <= md.areas[i]
                  /\ md.areas[i] <= 2 * options.max_area
            /\ \A j \in 1 .. Len(contours) :
                  LET a == ContourArea2(contours[j])
                  IN  /\ options.min_area <= options.max_area
                      /\ a = 2 * options.min_area \/ a = 2 * options.max_area
                      => \E i \in 1 .. Len(md.areas) :
                            /\ md.areas[i] = a
                            /\ md.boxes[i] = BoundingRect(contours[j])

C8_Witness ==
    /\ dpc = "returned"
    /\ algo \in ContourVariants
    /\ options.min_area >= 1
    /\ \E i \in 1 .. Len(ResultMetadata.areas) :
          /\ ResultMetadata.areas[i] = 2 * options.min_area
          /\ ResultMetadata.areas[i] = 2 * options.max_area

(* the documented range of every option the selected variant has *)
InRange(opts) ==
    LET has(f) == f \in DOMAIN opts
    IN  /\ OddPositive(opts.blur_size)
        /\ OddPositive(opts.clean_size)
        /\ has("peak_size") => OddPositive(opts.peak_size)
        /\ has("min_area") => opts.min_area >= 0 /\ opts.max_area >= 0
        /\ has("percentile") => opts.percentile \in 0 .. 100
        /\ has("margin") => opts.margin \in 0 .. 100

(* C11: a call with an option outside its documented range fails with a    *)
(* ConfigurationError before any image operation is made.  The code        *)
(* validates nothing: the value reaches cv2 or numpy, or is used silently. *)
C11_Validation ==
    dpc \in {"returned", "raised"} /\ ~InRange(options) =>
        /\ result = PyRaise("ConfigurationError")
        /\ ops = <<>>

(* the values the pending call can return *)
Outcomes ==
    CASE algo = "otsu" ->
           LET th == OtsuThresholding(frame, options.blur_size, options.clean_size)
           IN  {OtsuProcessFrame(th, cs, options) : cs \in FindContours(th)}
      [] algo = "percentile" ->
           LET th == PercentileThresholding(frame, options.percentile,
                                            options.blur_size, options.clean_size)
           IN  {PercentileProcessFrame(th, cs, options) : cs \in FindContours(th)}
      [] algo = "fixed" ->
           LET th == FixedThresholding(frame, options.margin,
                                       options.blur_size, options.clean_size)
           IN  {FixedProcessFrame(th, cs, options) : cs \in FindContours(th)}
      [] algo = "peaks" ->
           LET th == PeaksMask(frame, options.margin, options.blur_size, options.clean_size)
           IN  {PeaksProcessFrame(comps) :
                   comps \in ConnectedComponents(LocalMax(th, options.peak_size))}

(* C9: on an all-zero frame every variant returns, and returns empty        *)
(* centers, boxes, areas and labels.                                        *)
C9_ZeroFrame ==
    frame = ZeroFrame =>
        /\ dpc = "call" => Outcomes # {}
        /\ dpc = "returned" =>
              /\ Foreground(thresh) = {}
              /\ ResultMetadata.centers = <<>>
              /\ ResultMetadata.boxes = <<>>
              /\ ResultMetadata.areas = <<>>
              /\ ResultMetadata.labels = <<>>

C9_Witness ==
    /\ frame = ZeroFrame
    /\ dpc = "returned"
    /\ algo = "peaks"
    /\ options.margin = 0
    /\ ResultMetadata.centers = <<>>

(* the detections of a metadata dict: position i of centers, boxes, areas *)
Detections(md) == [i \in 1 .. Len(md.centers) |-> <<md.centers[i], md.boxes[i], md.areas[i]>>]

RECURSIVE IsSubsequence(_, _)
IsSubsequence(s, t) ==
    IF s = <<>> THEN TRUE
    ELSE IF t = <<>> THEN FALSE
    ELSE IF Head(s) = Head(t) THEN IsSubsequence(Tail(s), Tail(t))
    ELSE IsSubsequence(s, Tail(t))

(* the same detector on the same frame with min_area replaced *)
WithMinArea(m) ==
    LET opts == [options EXCEPT !.min_area = m]
        again == CASE algo = "otsu" -> OtsuProcessFrame(thresh, contours, opts)
                   [] algo = "percentile" -> PercentileProcessFrame(thresh, contours, opts)
                   [] algo = "fixed" -> FixedProcessFrame(thresh, contours, opts)
    IN  Detections(again.items[4])

(* C10: for otsu, percentile and fixed, the detections under any            *)
(* min_area' >= min_area are a subsequence of those under min_area, so      *)
(* raising min_area never increases their number.                           *)
C10_Monotone ==
    dpc = "returned" /\ algo \in ContourVariants =>
        \A m \in Areas :
            m >= options.min_area =>
                /\ IsSubsequence(WithMinArea(m), Detections(ResultMetadata))
                /\ Len(WithMinArea(m)) <= Len(ResultMetadata.centers)

C10_Witness ==
    /\ dpc = "returned"
    /\ algo \in ContourVariants
    /\ \E m \in Areas :
          /\ m > options.min_area
          /\ Len(WithMinArea(m)) >= 1
          /\ Len(WithMinArea(m)) < Len(ResultMetadata.centers)

(* C12 as stated: with t the percentile-th percentile of the smoothed      *)
(* intensities, a pixel is foreground if and only if its smoothed          *)
(* intensity is at or above t.                                             *)
C12_AtOrAbove ==
    dpc = "returned" /\ algo = "percentile" =>
        \A p \in Pixels : binary[p] = 255 <=> 100 * blur[p] >= thresh_val

(* C12, amended: a pixel is foreground if and only if its smoothed         *)
(* intensity is strictly above t; a pixel whose intensity equals t is      *)
(* background.  t is the minimum at percentile 0 and the maximum at 100.   *)
C12_StrictlyAbove ==
    dpc = "returned" /\ algo = "percentile" =>
        /\ \A p \in Pixels : binary[p] \in {0, 255}
        /\ \A p \in Pixels : binary[p] = 255 <=> 100 * blur[p] > thresh_val
        /\ \A p \in Pixels : 100 * blur[p] = thresh_val => binary[p] = 0
        /\ options.percentile = 0 => thresh_val = 100 * SetMin({blur[p] : p \in Pixels})
        /\ options.percentile = 100 => thresh_val = 100 * SetMax({blur[p] : p \in Pixels})

C12_Witness ==
    /\ dpc = "returned"
    /\ algo = "percentile"
    /\ \E p \in Pixels : 100 * blur[p] = thresh_val /\ binary[p] = 0
    /\ \E p \in Pixels : binary[p] = 255

(* the pixels whose distance value is > 0 and equals the dilated value *)
PeakPixels ==
    LET dist == DistanceTransform(thresh)
        dist_dil == Dilate(dist, EllipseKernel(options.peak_size))
    IN  {p \in Pixels : dist[p] > 0 /\ dist[p] = dist_dil[p]}

(* c is one 8-connected component of the pixel set M *)
IsComponent(c, M) ==
    /\ c # {}
    /\ c \subseteq M
    /\ \A S \in SUBSET c : S # {} /\ S # c => \E p \in S, q \in c \ S : Adjacent8(p, q)
    /\ \A p \in c, q \in M \ c : ~Adjacent8(p, q)

(* C13: peaks returns boxes, areas and labels empty whatever it detects,   *)
(* and exactly one center per 8-connected component of the mask of pixels  *)
(* whose distance value is > 0 and equals the dilated distance value.      *)
C13_PeaksCenters ==
    dpc = "returned" /\ algo = "peaks" =>
        LET md == ResultMetadata
            n == Len(md.centers)
        IN  /\ md.boxes = <<>> /\ md.areas = <<>> /\ md.labels = <<>>
            /\ n = Len(components)
            /\ \A i \in 1 .. n : IsComponent(components[i], PeakPixels)
            /\ \A i, j \in 1 .. n : i # j => components[i] # components[j]
            /\ UNION {components[i] : i \in 1 .. n} = PeakPixels
            /\ \A i \in 1 .. n : md.centers[i] = Centroid(components[i])

C13_Witness ==
    /\ dpc = "returned"
    /\ algo = "peaks"
    /\ Len(ResultMetadata.centers) >= 2
    /\ ResultMetadata.boxes = <<>>
    /\ PeakPixels # Foreground(thresh)

(* C14: for otsu, percentile and fixed the result is the order-preserving  *)
(* subsequence of the contours whose area is in the band, and each center  *)
(* is (x + w div 2, y + h div 2) of the box stored at the same index.      *)
C14_DiscoveryOrder ==
    dpc = "returned" /\ algo \in ContourVariants =>
        LET md == ResultMetadata
            n == Len(md.centers)
            kept == {j \in 1 .. Len(contours) :
                        /\ ContourArea2(contours[j]) >= 2 * options.min_area
                        /\ ContourArea2(contours[j]) <= 2 * options.max_area}
        IN  /\ Len(md.boxes) = n
            /\ \E f \in [1 .. n -> 1 .. Len(contours)] :
                  /\ \A i, j \in 1 .. n : i < j => f[i] < f[j]
                  /\ {f[i] : i \in 1 .. n} = kept
                  /\ \A i \in 1 .. n : md.boxes[i] = BoundingRect(contours[f[i]])
            /\ \A i \in 1 .. n :
                  LET b == md.boxes[i]
                  IN  md.centers[i] = <<b[1] + b[3] \div 2, b[2] + b[4] \div 2>>

C14_Witness ==
    /\ dpc = "returned"
    /\ algo \in ContourVariants
    /\ Len(ResultMetadata.centers) = 2
    /\ ResultMetadata.boxes[1] = BoundingRect(contours[1])
    /\ ResultMetadata.boxes[2] = BoundingRect(contours[2])
    /\ ResultMetadata.boxes[1] # ResultMetadata.boxes[2]

(* one open followed by one close of the mask cv2.threshold produced *)
OpenedClosedOnce ==
    LET K == EllipseKernel(options.clean_size)
    IN  Erode(Dilate(Dilate(Erode(binary, K), K), K), K)

(* the open and the close with two iterations each *)
OpenedClosedTwice ==
    LET K == EllipseKernel(options.clean_size)
        opened == Dilate(Dilate(Erode(Erode(binary, K), K), K), K)
    IN  Erode(Erode(Dilate(Dilate(opened, K), K), K), K)

(* centers, boxes and areas are those of the contour loop over the cleaned mask *)
LoopOverCleaned ==
    /\ contours \in FindContours(thresh)
    /\ Detections(ResultMetadata)
         = Detections(FilterContours(contours, options.min_area, options.max_area))

(* C15 as stated: otsu, percentile and fixed apply the same cleanup to the *)
(* binary mask, one open followed by one close with the clean_size kernel, *)
(* and so produce identical centers, boxes and areas from the same mask.   *)
C15_SameCleanup ==
    dpc = "returned" /\ algo \in ContourVariants =>
        /\ thresh = OpenedClosedOnce
        /\ LoopOverCleaned

(* C15, amended: otsu and percentile apply one open followed by one close; *)
(* fixed applies the open and the close with two iterations each.  All     *)
(* three then run the same contour loop over the cleaned mask.             *)
C15_CleanupPerVariant ==
    dpc = "returned" /\ algo \in ContourVariants =>
        /\ algo \in {"otsu", "percentile"} => thresh = OpenedClosedOnce
        /\ algo = "fixed" => thresh = OpenedClosedTwice
        /\ LoopOverCleaned

C15_Witness ==
    /\ dpc = "returned"
    /\ algo = "fixed"
    /\ thresh = OpenedClosedTwice
    /\ thresh # OpenedClosedOnce
    /\ Len(ResultMetadata.centers) = 0
    /\ \E cs \in FindContours(OpenedClosedOnce) :
          Len(FilterContours(cs, options.min_area, options.max_area).centers) >= 1

(* C20: fixed and peaks threshold at int(margin * max) with a strictly-    *)
(* greater comparison: a pixel whose smoothed intensity equals the         *)
(* truncated threshold is background, and with margin = 1 no pixel is      *)
(* foreground and centers is empty, whatever the frame holds.              *)
C20_MarginThreshold ==
    dpc = "returned" /\ algo \in {"fixed", "peaks"} =>
        LET max_val == SetMax({blur[p] : p \in Pixels})
        IN  /\ thresh_val % 100 = 0
            /\ thresh_val <= max_val * options.margin
            /\ max_val * options.margin < thresh_val + 100
            /\ \A p \in Pixels : binary[p] = 255 <=> 100 * blur[p] > thresh_val
            /\ \A p \in Pixels : 100 * blur[p] = thresh_val => binary[p] = 0
            /\ options.margin = 100 =>
                  /\ Foreground(binary) = {}
                  /\ Foreground(thresh) = {}
                  /\ ResultMetadata.centers = <<>>

C20_Witness ==
    /\ dpc = "returned"
    /\ algo \in {"fixed", "peaks"}
    /\ options.margin = 100
    /\ \E p \in Pixels : blur[p] = 255
    /\ \E p \in Pixels : blur[p] < 255
    /\ ResultMetadata.centers = <<>>

-----------------------------------------------------------------------------
(* Properties of the frame loop *)

AfterDetect == {"stars", "boxes", "lines", "connect", "write", "failed"}

AfterStars == {"boxes", "lines", "connect", "write"}

PeaksMetadata ==
    /\ algo = "peaks"
    /\ lpc \in AfterDetect
    /\ metadata.type = "dict"
    /\ metadata.items.boxes = <<>>
    /\ Len(metadata.items.centers) >= 1

(* C16: a Peak-Based result, with centers and no boxes, is handled by the  *)
(* renderers: no renderer fails on it, the star renderer draws one marker  *)
(* for each center, the box renderer draws nothing, and the frame goes on  *)
(* to be written.                                                          *)
C16_RenderersHandlePeaks ==
    PeaksMetadata =>
        /\ error = "none"
        /\ lpc # "failed"
        /\ (enabled.stars /\ lpc \in AfterStars)
               => drawn.stars = Len(metadata.items.centers)
        /\ drawn.boxes = 0

IsPrefix(s, t) ==
    /\ Len(s) <= Len(t)
    /\ \A n \in 1 .. Len(s) : s[n] = t[n]

(* C17: frames are handled one after another: the frames read are          *)
(* 0, 1, 2, ... in order, a frame is written before the next one is read,  *)
(* and every frame that was read is written exactly once, in read order,   *)
(* by the time the loop has ended; after a failed read no frame is read.   *)
C17_Sequential ==
    /\ \A n \in 1 .. Len(reads) : reads[n] = n - 1
    /\ IsPrefix(written, reads)
    /\ Len(reads) <= Len(written) + 1
    /\ lpc = "read" => written = reads
    /\ lpc \in {"done", "failed"} => written = reads
    /\ Len(reads) <= Len(video)


====
